---------------------------- MODULE Spec2Model ----------------------------
(***************************************************************************)
(* The Q-learning spaced-retrieval scheduler of the cognitive backend     *)
(* (src/cognitive_backend/src/qlearning_scheduler.py), as a state machine *)
(* over the scheduler object's fields.                                     *)
(*                                                                         *)
(* Q-values are floats in the source.  They are held here in fixed point, *)
(* in units of 1/QScale; rewards are multiples of 0.1 and are exact.      *)
(* Latencies are whole seconds.                                            *)
(* An item id is a Python int or str: <<"int", digits>> or <<"str", s>>.  *)
(***************************************************************************)
EXTENDS Integers, Sequences, FiniteSets, TLC

----------------------------------------------------------------------------
(* Bounds of the exploration *)

\* record_result calls accepted for known items
MaxSessions == 4

\* record_result calls accepted in the runs that also save and load
MaxPersistSessions == 1

\* rounds of two concurrent record_result requests
MaxRounds == 1

\* record_result calls in the long runs that repeat one outcome
MaxLearnSessions == 1400

\* record_result calls in the runs over the grid of latencies
MaxGridSessions == 2

\* record_result calls accepted in the runs with two items
MaxPairSessions == 3

----------------------------------------------------------------------------
(* Inputs *)

\* the item the quiz driver schedules
ScheduledIds == { <<"int", "1">> }

\* ids results are reported for: the scheduled one and one never scheduled
ItemIds == { <<"int", "1">>, <<"str", "a">> }

\* ids scheduled in the runs that save and load: an int and a str
PersistIds == { <<"int", "1">>, <<"str", "a">> }

Difficulties == 1..3

ValidLabels == {"low", "moderate", "high"}

\* "bogus" stands for any label outside the three known ones
LoadLabels == ValidLabels \cup {"bogus"}

\* the outcomes reported to record_result: <<correct, latency_sec, difficulty, load_band>>;
\* latencies are seconds, -1 is a malformed (negative) one
Results == { <<TRUE, 1, 1, "high">>, <<TRUE, 3, 3, "low">>, <<FALSE, 7, 3, "moderate">>, <<FALSE, -1, 2, "bogus">> }

\* the epsilon-greedy draw: <<TRUE, a>> explores with np.random.randint giving a,
\* <<FALSE, 0>> exploits (force_exploit, or np.random.random() >= epsilon)
Draws == {<<TRUE, a>> : a \in 0..3} \cup {<<FALSE, 0>>}

\* <<difficulty, load_band>> passed when an item is scheduled again
AgainArgs == { <<1, "low">>, <<2, "bogus">>, <<3, "high">> }

\* <<difficulty, load_band>> passed in the runs that save and load
PersistArgs == { <<1, "low">>, <<3, "high">> }

\* the request handlers that run concurrently
Handlers == {1, 2}

----------------------------------------------------------------------------
(* Hyperparameters and dimensions, QLearningScheduler.__init__ *)

max_streak == 3

max_latency_bin == 2

max_load_bin == 2

n_actions == 4

state_dims == <<3, max_streak + 1, max_latency_bin + 1, max_load_bin + 1>>

actions == [a \in 0..(n_actions - 1) |-> CASE a = 0 -> 30 [] a = 1 -> 60 [] a = 2 -> 120 [] OTHER -> 240]

QScale == 1000000

\* the defaults 0.1 and 0.9 as <<numerator, denominator>>
learning_rate == <<1, 10>>

discount_factor == <<9, 10>>

\* np.zeros: q_table holds the cells <<state index, action>> that differ from 0.0
ZeroTable == <<>>

----------------------------------------------------------------------------
(* Python values *)

Min(a, b) == IF a <= b THEN a ELSE b

Max(a, b) == IF a >= b THEN a ELSE b

PyInt(n) == <<"int", n>>

PyStr(s) == <<"str", s>>

\* Python's ==: values of different types are never equal
PyEq(a, b) == a[1] = b[1] /\ a[2] = b[2]

\* str(k) of an item id
StrOf(k) == k[2]

DigitStrings == {"0", "1"}

\* int(s) succeeds exactly on a decimal numeral, and raises ValueError otherwise
IntParses(s) == s \in DigitStrings

IntOf(s) == <<"int", s>>

\* no action index
NoAction == n_actions

NoLast == [op |-> "init", item_id |-> <<"int", "0">>, difficulty |-> 0, load_band |-> "", known |-> FALSE,
           action |-> NoAction, ret |-> 0, stats |-> <<>>, err |-> "none"]

NoFile == [exists |-> FALSE]

\* Python's None
None == <<"None">>

----------------------------------------------------------------------------
VARIABLES
    q_table,        \* self.q_table
    item_states,    \* self.item_states: item id -> <<difficulty, streak, latency bin, load band>>
    item_sessions,  \* self.item_sessions: item id -> sequence of session records
    saved,          \* the model file written by save_model
    last,           \* the last call: its item, whether the item had a state, the action, the result
    pcs,            \* concurrent handlers: position of each in record_result
    reqs,           \* concurrent handlers: the request each is serving
    locals,         \* concurrent handlers: local variables of record_result
    pre,            \* the scheduler's fields when the concurrent requests were dispatched
    coefficients    \* SpeechBiomarkerModel.coefficients of the speech model

vars == <<q_table, item_states, item_sessions, saved, last, pcs, reqs, locals, pre, coefficients>>

sched == <<q_table, item_states, item_sessions>>

conc == <<pcs, reqs, locals, pre>>

----------------------------------------------------------------------------
(* Pure methods *)

\* the row q_table[state_idx] of the array
QRow(q, s) == [a \in 0..(n_actions - 1) |-> IF <<s, a>> \in DOMAIN q THEN q[<<s, a>>] ELSE 0]

\* q_table[state_idx + (action,)] = v
QPut(q, s, a, v) == IF v = 0 THEN [c \in DOMAIN q \ {<<s, a>>} |-> q[c]] ELSE (<<s, a>> :> v) @@ q

\* numpy index of one axis: i in -n..n-1 addresses i mod n, anything else raises IndexError
AxisOk(i, n) == -n <= i /\ i < n

AxisNorm(i, n) == IF i < 0 THEN i + n ELSE i

IndexOk(idx) == \A k \in 1..4 : AxisOk(idx[k], state_dims[k])

IndexNorm(idx) == <<AxisNorm(idx[1], state_dims[1]), AxisNorm(idx[2], state_dims[2]),
                    AxisNorm(idx[3], state_dims[3]), AxisNorm(idx[4], state_dims[4])>>

get_state_index_unclamped_load(difficulty, success_streak, latency_bin, load_band) ==
    <<Min(difficulty - 1, 2), Min(success_streak, max_streak),
      Min(latency_bin, max_latency_bin), load_band>>

get_state_index(difficulty, success_streak, latency_bin, load_band) ==
    <<Min(difficulty - 1, 2), Min(success_streak, max_streak),
      Min(latency_bin, max_latency_bin), Min(load_band - 1, max_load_bin)>>

StateIndexOf(state) == get_state_index(state[1], state[2], state[3], state[4])

get_latency_bin_strict(latency_sec) ==
    IF latency_sec < 2 THEN 0 ELSE IF latency_sec < 5 THEN 1 ELSE 2

\* Lines 56-63
get_latency_bin(latency_sec) ==
    IF latency_sec <= 2 THEN 0 ELSE IF latency_sec <= 5 THEN 1 ELSE 2

get_load_band_index_default_low(load_band) ==
    CASE load_band = "low" -> 1
      [] load_band = "moderate" -> 2
      [] load_band = "high" -> 3
      [] OTHER -> 1

get_load_band_index(load_band) ==
    CASE load_band = "low" -> 1
      [] load_band = "moderate" -> 2
      [] load_band = "high" -> 3
      [] OTHER -> 2

RowMax(row) == CHOOSE m \in {row[a] : a \in DOMAIN row} : \A a \in DOMAIN row : row[a] <= m

\* the last index holding the maximum
ArgMaxLast(row) == CHOOSE a \in DOMAIN row : row[a] = RowMax(row) /\ \A b \in DOMAIN row : b > a => row[b] < row[a]

\* np.argmax: the first index holding the maximum
ArgMax(row) == CHOOSE a \in DOMAIN row : row[a] = RowMax(row) /\ \A b \in DOMAIN row : b < a => row[b] < row[a]

\* Lines 73-80: the epsilon-greedy pick.  explore: not force_exploit and
\* np.random.random() < epsilon; pick: the value of np.random.randint.
greedy_pick(q, state, explore, pick) ==
    IF explore THEN pick ELSE ArgMax(QRow(q, IndexNorm(StateIndexOf(state))))

safety_constraints_no_hard_cap(state, action) ==
    LET difficulty == state[1]
        success_streak == state[2]
        load_band == PyInt(state[4])
        a1 == IF PyEq(load_band, PyStr("high")) THEN Min(action, 2) ELSE action
        a2 == IF difficulty = 1 /\ success_streak >= 2
                 /\ \E s \in {"low", "moderate"} : PyEq(load_band, PyStr(s))
              THEN Max(a1, 1) ELSE a1
    IN a2

\* Lines 82-93: the safety constraints.  state[4] is the int stored by
\* get_next_interval / record_result; it is compared with str literals.
safety_constraints(state, action) ==
    LET difficulty == state[1]
        success_streak == state[2]
        load_band == PyInt(state[4])
        a1 == IF difficulty >= 3 \/ PyEq(load_band, PyStr("high")) THEN Min(action, 2) ELSE action
        a2 == IF difficulty = 1 /\ success_streak >= 2
                 /\ \E s \in {"low", "moderate"} : PyEq(load_band, PyStr(s))
              THEN Max(a1, 1) ELSE a1
    IN a2

choose_action(q, state, explore, pick) == safety_constraints(state, greedy_pick(q, state, explore, pick))

\* the speed bonus with the boundaries excluded
calculate_reward_strict_speed(correct, latency_sec, difficulty, load_band) ==
    IF correct
    THEN 10 + (IF latency_sec < 2 THEN 5 ELSE IF latency_sec < 5 THEN 3 ELSE IF latency_sec < 10 THEN 1 ELSE 0)
            + (IF difficulty >= 3 THEN 2 ELSE 0)
            + (IF load_band = "high" THEN 2 ELSE 0)
    ELSE -5 - (IF difficulty = 1 THEN 3 ELSE 0)

\* in tenths
calculate_reward(correct, latency_sec, difficulty, load_band) ==
    IF correct
    THEN 10 + (IF latency_sec <= 2 THEN 5 ELSE IF latency_sec <= 5 THEN 3 ELSE IF latency_sec <= 10 THEN 1 ELSE 0)
            + (IF difficulty >= 3 THEN 2 ELSE 0)
            + (IF load_band = "high" THEN 2 ELSE 0)
    ELSE -5 - (IF difficulty = 1 THEN 3 ELSE 0)

\* reward in tenths -> units of 1/QScale
RewardQ(r) == r * (QScale \div 10)

\* the update without discounting (gamma = 1)
new_q_value_undiscounted(current_q, reward, max_next_q) ==
    current_q + (learning_rate[1] * (RewardQ(reward) + max_next_q - current_q)) \div learning_rate[2]

\* Line 139: the value written to the cell
new_q_value(current_q, reward, max_next_q) ==
    current_q + (learning_rate[1] * (discount_factor[2] * RewardQ(reward) + discount_factor[1] * max_next_q
                                     - discount_factor[2] * current_q))
                    \div (learning_rate[2] * discount_factor[2])

\* the update applied twice over
update_q_value_twice(q, state, action, reward, next_state) ==
    LET state_idx == IndexNorm(StateIndexOf(state))
        next_state_idx == IndexNorm(StateIndexOf(next_state))
        q1 == QPut(q, state_idx, action,
                   new_q_value(QRow(q, state_idx)[action], reward, RowMax(QRow(q, next_state_idx))))
    IN QPut(q1, state_idx, action,
            new_q_value(QRow(q1, state_idx)[action], reward, RowMax(QRow(q1, next_state_idx))))

\* Lines 128-140
update_q_value(q, state, action, reward, next_state) ==
    LET state_idx == IndexNorm(StateIndexOf(state))
        next_state_idx == IndexNorm(StateIndexOf(next_state))
        current_q == QRow(q, state_idx)[action]
        max_next_q == RowMax(QRow(q, next_state_idx))
    IN QPut(q, state_idx, action, new_q_value(current_q, reward, max_next_q))

new_streak_uncapped(correct, success_streak) == IF correct THEN success_streak + 1 ELSE 0

\* Lines 173-177
new_streak(correct, success_streak) == IF correct THEN Min(success_streak + 1, max_streak) ELSE 0

\* Line 183, with the stored difficulty of line 168
new_state_of(current_state, correct, latency_sec, load_band) ==
    <<current_state[1], new_streak(correct, current_state[2]), get_latency_bin(latency_sec), get_load_band_index(load_band)>>

credited_action_longest == n_actions - 1

\* Line 188
credited_action == 0

initial_state_fast_bin(difficulty, load_band) == <<difficulty, 0, 0, get_load_band_index(load_band)>>

\* Line 148: the state of an item on its first scheduling request
initial_state(difficulty, load_band) == <<difficulty, 0, 1, get_load_band_index(load_band)>>

\* Lines 195-201
session_data_of(current_state, correct, latency_sec, load_band) ==
    [correct |-> correct, latency_sec |-> latency_sec,
     reward |-> calculate_reward(correct, latency_sec, current_state[1], load_band),
     old_state |-> current_state,
     new_state |-> new_state_of(current_state, correct, latency_sec, load_band)]

\* record_result keeping only the latest record of an item
record_effect_keeping_latest(f, item_id, correct, latency_sec, load_band) ==
    LET current_state == f.item_states[item_id]
        sd == session_data_of(current_state, correct, latency_sec, load_band)
    IN [q_table |-> update_q_value(f.q_table, current_state, credited_action, sd.reward, sd.new_state),
        item_states |-> [f.item_states EXCEPT ![item_id] = sd.new_state],
        item_sessions |-> [f.item_sessions EXCEPT ![item_id] = <<sd>>]]

\* Lines 166-202 on the fields f of a scheduler that knows item_id
record_effect(f, item_id, correct, latency_sec, load_band) ==
    LET current_state == f.item_states[item_id]
        sd == session_data_of(current_state, correct, latency_sec, load_band)
    IN [q_table |-> update_q_value(f.q_table, current_state, credited_action, sd.reward, sd.new_state),
        item_states |-> [f.item_states EXCEPT ![item_id] = sd.new_state],
        item_sessions |-> [f.item_sessions EXCEPT ![item_id] = Append(@, sd)]]

Fields == [q_table |-> q_table, item_states |-> item_states, item_sessions |-> item_sessions]

SumLen(ss) == LET RECURSIVE Sum(_)
                  Sum(S) == IF S = {} THEN 0 ELSE LET k == CHOOSE k \in S : TRUE IN Len(ss[k]) + Sum(S \ {k})
              IN Sum(DOMAIN ss)

TotalSessions == SumLen(item_sessions)

----------------------------------------------------------------------------
Init ==
    /\ q_table = ZeroTable
    /\ item_states = <<>>
    /\ item_sessions = <<>>
    /\ saved = NoFile
    /\ last = NoLast
    /\ pcs = [h \in Handlers |-> "idle"]
    /\ reqs = <<>>
    /\ locals = <<>>
    /\ pre = <<>>
    /\ coefficients = None

\* the interval chosen from the load band passed, not the stored one
next_interval_from_arguments(f, item_id, difficulty, load_band, explore, pick) ==
    LET state == IF item_id \in DOMAIN f.item_states
                 THEN [f.item_states[item_id] EXCEPT ![4] = get_load_band_index(load_band)]
                 ELSE initial_state(difficulty, load_band)
    IN actions[choose_action(f.q_table, state, explore, pick)]

\* Lines 146-158: the interval get_next_interval returns on the fields f
next_interval(f, item_id, difficulty, load_band, explore, pick) ==
    LET state == IF item_id \in DOMAIN f.item_states
                 THEN f.item_states[item_id]
                 ELSE initial_state(difficulty, load_band)
    IN actions[choose_action(f.q_table, state, explore, pick)]

\* get_next_interval taking the observed load band into a known item's state
GetNextIntervalRefreshing(item_id, difficulty, load_band, explore, pick) ==
    LET known == item_id \in DOMAIN item_states
        state == IF known THEN [item_states[item_id] EXCEPT ![4] = get_load_band_index(load_band)]
                 ELSE initial_state(difficulty, load_band)
        idx == StateIndexOf(state)
        action == choose_action(q_table, state, explore, pick)
        ok == IndexOk(idx) /\ action \in DOMAIN actions
    IN /\ item_states' = (item_id :> state) @@ item_states
       /\ item_sessions' = IF known THEN item_sessions ELSE (item_id :> <<>>) @@ item_sessions
       /\ last' = [NoLast EXCEPT !.op = "get_next_interval", !.item_id = item_id,
                                 !.difficulty = difficulty, !.load_band = load_band, !.known = known,
                                 !.action = IF ok THEN action ELSE NoAction,
                                 !.ret = IF ok THEN actions[action] ELSE 0,
                                 !.err = IF ok THEN "none" ELSE "IndexError"]
       /\ UNCHANGED <<q_table, saved, conc, coefficients>>

\* get_next_interval(item_id, difficulty, load_band, force_exploit)
GetNextInterval(item_id, difficulty, load_band, explore, pick) ==
    LET known == item_id \in DOMAIN item_states
        state == IF known THEN item_states[item_id] ELSE initial_state(difficulty, load_band)
        idx == StateIndexOf(state)
        action == choose_action(q_table, state, explore, pick)
        ok == IndexOk(idx) /\ action \in DOMAIN actions
    IN /\ item_states' = IF known THEN item_states ELSE (item_id :> state) @@ item_states
       /\ item_sessions' = IF known THEN item_sessions ELSE (item_id :> <<>>) @@ item_sessions
       /\ last' = [NoLast EXCEPT !.op = "get_next_interval", !.item_id = item_id,
                                 !.difficulty = difficulty, !.load_band = load_band, !.known = known,
                                 !.action = IF ok THEN action ELSE NoAction,
                                 !.ret = IF ok THEN actions[action] ELSE 0,
                                 !.err = IF ok THEN "none" ELSE "IndexError"]
       /\ UNCHANGED <<q_table, saved, conc, coefficients>>

\* Lines 166-202: record_result for an item that has a state
RecordKnown(item_id, correct, latency_sec, load_band) ==
    LET current_state == item_states[item_id]
        new_state == new_state_of(current_state, correct, latency_sec, load_band)
        after == record_effect(Fields, item_id, correct, latency_sec, load_band)
    IN IF IndexOk(StateIndexOf(current_state)) /\ IndexOk(StateIndexOf(new_state))
       THEN /\ q_table' = after.q_table
            /\ item_states' = after.item_states
            /\ item_sessions' = after.item_sessions
            /\ last' = [NoLast EXCEPT !.op = "record_result", !.item_id = item_id,
                                      !.load_band = load_band,
                                      !.known = TRUE, !.action = credited_action]
            /\ UNCHANGED <<saved, conc, coefficients>>
       ELSE /\ last' = [NoLast EXCEPT !.op = "record_result", !.item_id = item_id,
                                      !.load_band = load_band,
                                      !.known = TRUE, !.err = "IndexError"]
            /\ UNCHANGED <<sched, saved, conc, coefficients>>

\* record_result storing the difficulty it is passed
RecordResultRestating(item_id, correct, latency_sec, difficulty, load_band) ==
    IF item_id \notin DOMAIN item_states
    THEN /\ last' = [NoLast EXCEPT !.op = "record_result", !.item_id = item_id,
                                   !.load_band = load_band]
         /\ UNCHANGED <<sched, saved, conc, coefficients>>
    ELSE LET after == record_effect(Fields, item_id, correct, latency_sec, load_band)
         IN /\ q_table' = after.q_table
            /\ item_states' = [after.item_states EXCEPT ![item_id][1] = difficulty]
            /\ item_sessions' = after.item_sessions
            /\ last' = [NoLast EXCEPT !.op = "record_result", !.item_id = item_id,
                                      !.load_band = load_band,
                                      !.known = TRUE, !.action = credited_action]
            /\ UNCHANGED <<saved, conc, coefficients>>

RecordResultCreating(item_id, correct, latency_sec, difficulty, load_band) ==
    IF item_id \notin DOMAIN item_states
    THEN /\ item_states' = (item_id :> <<difficulty, 0, 1, get_load_band_index(load_band)>>) @@ item_states
         /\ item_sessions' = (item_id :> <<>>) @@ item_sessions
         /\ last' = [NoLast EXCEPT !.op = "record_result", !.item_id = item_id,
                                   !.load_band = load_band]
         /\ UNCHANGED <<q_table, saved, conc, coefficients>>
    ELSE RecordKnown(item_id, correct, latency_sec, load_band)

\* record_result(item_id, correct, latency_sec, difficulty, load_band)
RecordResult(item_id, correct, latency_sec, difficulty, load_band) ==
    IF item_id \notin DOMAIN item_states
    THEN /\ last' = [NoLast EXCEPT !.op = "record_result", !.item_id = item_id,
                                   !.load_band = load_band]
         /\ UNCHANGED <<sched, saved, conc, coefficients>>
    ELSE RecordKnown(item_id, correct, latency_sec, load_band)

\* sum of f[i] over the indices of a sequence
SeqSum(f) ==
    LET RECURSIVE Sum(_)
        Sum(i) == IF i = 0 THEN 0 ELSE f[i] + Sum(i - 1)
    IN Sum(Len(f))

item_statistics_zero_is_empty(f, item_id) ==
    IF item_id \notin DOMAIN f.item_sessions \/ f.item_sessions[item_id] = <<>>
       \/ \A i \in DOMAIN f.item_sessions[item_id] : ~f.item_sessions[item_id][i].correct
    THEN <<>>
    ELSE LET sessions == f.item_sessions[item_id]
         IN [total_sessions |-> Len(sessions),
             accuracy |-> <<SeqSum([i \in DOMAIN sessions |-> IF sessions[i].correct THEN 1 ELSE 0]), Len(sessions)>>,
             avg_latency |-> <<SeqSum([i \in DOMAIN sessions |-> sessions[i].latency_sec]), Len(sessions)>>,
             avg_reward |-> <<SeqSum([i \in DOMAIN sessions |-> sessions[i].reward]), Len(sessions)>>,
             current_streak |-> f.item_states[item_id][2]]

\* statistics reporting the streak the item had before its last result
item_statistics_prior_streak(f, item_id) ==
    IF item_id \notin DOMAIN f.item_sessions \/ f.item_sessions[item_id] = <<>>
    THEN <<>>
    ELSE LET sessions == f.item_sessions[item_id]
         IN [total_sessions |-> Len(sessions),
             accuracy |-> <<SeqSum([i \in DOMAIN sessions |-> IF sessions[i].correct THEN 1 ELSE 0]), Len(sessions)>>,
             avg_latency |-> <<SeqSum([i \in DOMAIN sessions |-> sessions[i].latency_sec]), Len(sessions)>>,
             avg_reward |-> <<SeqSum([i \in DOMAIN sessions |-> sessions[i].reward]), Len(sessions)>>,
             current_streak |-> sessions[Len(sessions)].old_state[2]]

\* Lines 206-225: the dict returned; the empty dict is <<>>, and the three
\* quotients are held as <<sum, count>>
item_statistics(f, item_id) ==
    IF item_id \notin DOMAIN f.item_sessions \/ f.item_sessions[item_id] = <<>>
    THEN <<>>
    ELSE LET sessions == f.item_sessions[item_id]
         IN [total_sessions |-> Len(sessions),
             accuracy |-> <<SeqSum([i \in DOMAIN sessions |-> IF sessions[i].correct THEN 1 ELSE 0]), Len(sessions)>>,
             avg_latency |-> <<SeqSum([i \in DOMAIN sessions |-> sessions[i].latency_sec]), Len(sessions)>>,
             avg_reward |-> <<SeqSum([i \in DOMAIN sessions |-> sessions[i].reward]), Len(sessions)>>,
             current_streak |-> f.item_states[item_id][2]]

\* get_item_statistics(item_id); line 224 raises KeyError for an item with a
\* log and no state
GetItemStatistics(item_id) ==
    /\ last' = IF item_id \in DOMAIN item_sessions /\ item_sessions[item_id] # <<>>
                  /\ item_id \notin DOMAIN item_states
               THEN [NoLast EXCEPT !.op = "get_item_statistics", !.item_id = item_id, !.err = "KeyError"]
               ELSE [NoLast EXCEPT !.op = "get_item_statistics", !.item_id = item_id,
                                   !.known = item_id \in DOMAIN item_states,
                                   !.stats = item_statistics(Fields, item_id)]
    /\ UNCHANGED <<sched, saved, conc, coefficients>>

\* the first scheduling request for an item
Schedule ==
    \E item_id \in ScheduledIds \ DOMAIN item_states :
        \E difficulty \in Difficulties, load_band \in LoadLabels, rnd \in Draws :
            GetNextInterval(item_id, difficulty, load_band, rnd[1], rnd[2])

\* a later scheduling request for it
Reschedule ==
    \E item_id \in ScheduledIds \cap DOMAIN item_states :
        \E a \in AgainArgs, rnd \in Draws :
            GetNextInterval(item_id, a[1], a[2], rnd[1], rnd[2])

Report ==
    \E item_id \in ItemIds :
        /\ item_id \in DOMAIN item_states => TotalSessions < MaxSessions
        /\ \E r \in Results : RecordResult(item_id, r[1], r[2], r[3], r[4])

Statistics == \E item_id \in ItemIds : GetItemStatistics(item_id)

Next == Schedule \/ Reschedule \/ Report \/ Statistics

Spec == Init /\ [][Next]_vars

----------------------------------------------------------------------------
(* Saving and loading *)

\* Lines 229-232: the record written to the file; the keys are str(k).  No two
\* ids of PersistIds have the same str.
model_data_of(f) ==
    [exists |-> TRUE,
     q_table |-> f.q_table,
     item_states |-> [s \in {StrOf(k) : k \in DOMAIN f.item_states} |->
                         f.item_states[CHOOSE k \in DOMAIN f.item_states : StrOf(k) = s]],
     item_sessions |-> [s \in {StrOf(k) : k \in DOMAIN f.item_sessions} |->
                         f.item_sessions[CHOOSE k \in DOMAIN f.item_sessions : StrOf(k) = s]]]

\* Lines 253-254: {int(k): v for k, v in d.items()}
int_keyed(d) == [k \in {IntOf(s) : s \in DOMAIN d} |-> d[StrOf(k)]]

\* save_model(filepath)
SaveModel ==
    /\ saved' = model_data_of(Fields)
    /\ last' = [NoLast EXCEPT !.op = "save_model"]
    /\ UNCHANGED <<sched, conc, coefficients>>

\* load_model(filepath): open raises when there is no file; line 252 assigns the
\* table before line 253 converts the keys, where int(k) raises ValueError
LoadModel ==
    /\ IF ~saved.exists
       THEN /\ last' = [NoLast EXCEPT !.op = "load_model", !.err = "FileNotFoundError"]
            /\ UNCHANGED sched
       ELSE /\ q_table' = saved.q_table
            /\ IF \A s \in DOMAIN saved.item_states : IntParses(s)
               THEN /\ item_states' = int_keyed(saved.item_states)
                    /\ item_sessions' = int_keyed(saved.item_sessions)
                    /\ last' = [NoLast EXCEPT !.op = "load_model"]
               ELSE /\ last' = [NoLast EXCEPT !.op = "load_model", !.err = "ValueError"]
                    /\ UNCHANGED <<item_states, item_sessions>>
    /\ UNCHANGED <<saved, conc, coefficients>>

PersistSchedule ==
    \E item_id \in PersistIds, a \in PersistArgs, rnd \in Draws :
        GetNextInterval(item_id, a[1], a[2], rnd[1], rnd[2])

PersistReport ==
    \E item_id \in PersistIds :
        /\ item_id \in DOMAIN item_states => TotalSessions < MaxPersistSessions
        /\ \E r \in Results : RecordResult(item_id, r[1], r[2], r[3], r[4])

NextPersist == PersistSchedule \/ PersistReport \/ SaveModel \/ LoadModel

SpecPersist == Init /\ [][NextPersist]_vars

\* get_next_interval with epsilon forced to 0
exploit_interval(f, item_id) == actions[choose_action(f.q_table, f.item_states[item_id], FALSE, 0)]

----------------------------------------------------------------------------
(* Concurrent request handlers sharing the one scheduler: record_result run    *)
(* statement by statement; Python may switch threads between any two of them. *)

AllIdle == \A h \in Handlers : pcs[h] = "idle"

AllDone == \A h \in Handlers : pcs[h] = "done"

ConcSchedule ==
    /\ AllIdle
    /\ \E item_id \in ScheduledIds, a \in AgainArgs, rnd \in Draws :
          GetNextInterval(item_id, a[1], a[2], rnd[1], rnd[2])

\* two record_result requests for one item arrive together
Dispatch ==
    /\ AllIdle
    /\ TotalSessions < 2 * MaxRounds
    /\ \E item_id \in DOMAIN item_states, rs \in [Handlers -> Results] :
          reqs' = [h \in Handlers |-> [item_id |-> item_id, correct |-> rs[h][1],
                                       latency_sec |-> rs[h][2], load_band |-> rs[h][4]]]
    /\ pcs' = [h \in Handlers |-> "start"]
    /\ pre' = Fields
    /\ locals' = [h \in Handlers |-> <<>>]
    /\ UNCHANGED <<sched, saved, last, coefficients>>

\* Lines 163-183: the lookup, the reward and the new state
HStart(h) ==
    /\ pcs[h] = "start"
    /\ IF reqs[h].item_id \notin DOMAIN item_states
       THEN /\ pcs' = [pcs EXCEPT ![h] = "done"]
            /\ UNCHANGED locals
       ELSE /\ locals' = [locals EXCEPT ![h] =
                  [sd |-> session_data_of(item_states[reqs[h].item_id], reqs[h].correct,
                                          reqs[h].latency_sec, reqs[h].load_band)]]
            /\ pcs' = [pcs EXCEPT ![h] = "read_q"]
    /\ UNCHANGED <<sched, saved, last, reqs, pre, coefficients>>

\* Lines 132-137: update_q_value reads the cell and the next row's maximum
HReadQ(h) ==
    /\ pcs[h] = "read_q"
    /\ LET sd == locals[h].sd
       IN locals' = [locals EXCEPT ![h] =
              [sd |-> sd,
               current_q |-> QRow(q_table, IndexNorm(StateIndexOf(sd.old_state)))[credited_action],
               max_next_q |-> RowMax(QRow(q_table, IndexNorm(StateIndexOf(sd.new_state))))]]
    /\ pcs' = [pcs EXCEPT ![h] = "write_q"]
    /\ UNCHANGED <<sched, saved, last, reqs, pre, coefficients>>

\* Lines 139-140: update_q_value writes the cell
HWriteQ(h) ==
    /\ pcs[h] = "write_q"
    /\ q_table' = QPut(q_table, IndexNorm(StateIndexOf(locals[h].sd.old_state)), credited_action,
                       new_q_value(locals[h].current_q, locals[h].sd.reward, locals[h].max_next_q))
    /\ pcs' = [pcs EXCEPT ![h] = "store"]
    /\ UNCHANGED <<item_states, item_sessions, saved, last, reqs, locals, pre, coefficients>>

\* Line 192
HStore(h) ==
    /\ pcs[h] = "store"
    /\ item_states' = [item_states EXCEPT ![reqs[h].item_id] = locals[h].sd.new_state]
    /\ pcs' = [pcs EXCEPT ![h] = "append"]
    /\ UNCHANGED <<q_table, item_sessions, saved, last, reqs, locals, pre, coefficients>>

\* Line 202
HAppend(h) ==
    /\ pcs[h] = "append"
    /\ item_sessions' = [item_sessions EXCEPT ![reqs[h].item_id] = Append(@, locals[h].sd)]
    /\ pcs' = [pcs EXCEPT ![h] = "done"]
    /\ UNCHANGED <<q_table, item_states, saved, last, reqs, locals, pre, coefficients>>

\* both handlers have answered
Return ==
    /\ AllDone
    /\ pcs' = [h \in Handlers |-> "idle"]
    /\ UNCHANGED <<sched, saved, last, reqs, locals, pre, coefficients>>

NextConc ==
    \/ ConcSchedule
    \/ Dispatch
    \/ \E h \in Handlers : HStart(h)
    \/ \E h \in Handlers : HReadQ(h)
    \/ \E h \in Handlers : HWriteQ(h)
    \/ \E h \in Handlers : HStore(h)
    \/ \E h \in Handlers : HAppend(h)
    \/ Return

SpecConc == Init /\ [][NextConc]_vars

\* the fields after handler a's request and then handler b's, one after the other
serial(a, b) ==
    LET one == record_effect(pre, reqs[a].item_id, reqs[a].correct, reqs[a].latency_sec, reqs[a].load_band)
    IN record_effect(one, reqs[b].item_id, reqs[b].correct, reqs[b].latency_sec, reqs[b].load_band)

----------------------------------------------------------------------------
(* Long runs: one item, the same outcome reported over and over *)

\* <<difficulty, load_band>> of the first scheduling request
LearnArgs == { <<3, "high">>, <<1, "low">> }

\* the outcomes repeated: the best rewarded and the worst rewarded
LearnResults == { <<TRUE, 1, 3, "high">>, <<FALSE, 7, 1, "low">> }

LearnSchedule ==
    \E item_id \in ScheduledIds \ DOMAIN item_states, a \in LearnArgs :
        GetNextInterval(item_id, a[1], a[2], FALSE, 0)

LearnReport ==
    \E item_id \in ScheduledIds \cap DOMAIN item_states, r \in LearnResults :
        /\ TotalSessions < MaxLearnSessions
        /\ item_sessions[item_id] # <<>> =>
              LET prev == item_sessions[item_id][Len(item_sessions[item_id])]
              IN prev.correct = r[1] /\ prev.latency_sec = r[2]
        /\ RecordResult(item_id, r[1], r[2], r[3], r[4])

NextLearn == LearnSchedule \/ LearnReport

SpecLearn == Init /\ [][NextLearn]_vars

----------------------------------------------------------------------------
(* get_state_index and the array access on raw states *)

\* values of one component of a raw state, below, inside and above its range
RawValues == -5..5

\* a raw state is about to be looked up
InitIndex ==
    /\ q_table = ZeroTable
    /\ item_states = <<>>
    /\ item_sessions = <<>>
    /\ saved = NoFile
    /\ pcs = [h \in Handlers |-> "idle"]
    /\ reqs = <<>>
    /\ locals = <<>>
    /\ pre = <<>>
    /\ coefficients = None
    /\ \E state \in RawValues \X RawValues \X RawValues \X RawValues :
          last = [op |-> "raw_state", state |-> state]

\* Lines 73 and 80 (and 132-137): state_idx = get_state_index(*state), then
\* q_table[state_idx]; idx is the tuple computed, cell the row of the array
\* that numpy addresses with it
ReadRow ==
    /\ last.op = "raw_state"
    /\ LET idx == StateIndexOf(last.state)
       IN last' = [op |-> "get_state_index", state |-> last.state, idx |-> idx,
                   err |-> IF IndexOk(idx) THEN "none" ELSE "IndexError",
                   cell |-> IF IndexOk(idx) THEN IndexNorm(idx) ELSE <<>>]
    /\ UNCHANGED <<sched, saved, conc, coefficients>>

NextIndex == ReadRow

SpecIndex == InitIndex /\ [][NextIndex]_vars

----------------------------------------------------------------------------
(* calculate_reward on its own *)

\* latencies in whole seconds, on both sides of 2, 5 and 10
RewardLatencies == 0..12

\* the arguments of a call about to be made
InitReward ==
    /\ q_table = ZeroTable
    /\ item_states = <<>>
    /\ item_sessions = <<>>
    /\ saved = NoFile
    /\ pcs = [h \in Handlers |-> "idle"]
    /\ reqs = <<>>
    /\ locals = <<>>
    /\ pre = <<>>
    /\ coefficients = None
    /\ \E correct \in BOOLEAN, latency_sec \in RewardLatencies, difficulty \in Difficulties,
          load_band \in LoadLabels :
          last = [op |-> "reward_args", correct |-> correct, latency_sec |-> latency_sec,
                  difficulty |-> difficulty, load_band |-> load_band]

\* calculate_reward(correct, latency_sec, difficulty, load_band)
CalculateReward ==
    /\ last.op = "reward_args"
    /\ last' = [op |-> "calculate_reward", correct |-> last.correct, latency_sec |-> last.latency_sec,
                difficulty |-> last.difficulty, load_band |-> last.load_band,
                reward |-> calculate_reward(last.correct, last.latency_sec, last.difficulty, last.load_band)]
    /\ UNCHANGED <<sched, saved, conc, coefficients>>

NextReward == CalculateReward

SpecReward == InitReward /\ [][NextReward]_vars

----------------------------------------------------------------------------
(* Runs over a grid of latencies: one item, results on both sides of every *)
(* threshold, each reported with every difficulty argument                  *)

GridLatencies == {1, 2, 3, 5, 6, 7, 11}

GridLabels == {"low", "high"}

GridSchedule ==
    \E item_id \in ScheduledIds \ DOMAIN item_states, difficulty \in Difficulties, load_band \in GridLabels :
        GetNextInterval(item_id, difficulty, load_band, FALSE, 0)

GridReport ==
    \E item_id \in ScheduledIds \cap DOMAIN item_states :
        /\ TotalSessions < MaxGridSessions
        /\ \E correct \in BOOLEAN, latency_sec \in GridLatencies, difficulty \in Difficulties,
              load_band \in GridLabels :
              RecordResult(item_id, correct, latency_sec, difficulty, load_band)

NextGrid == GridSchedule \/ GridReport

SpecGrid == Init /\ [][NextGrid]_vars

----------------------------------------------------------------------------
(* Runs with two items, scheduled with force_exploit *)

PairSchedule ==
    \E item_id \in PersistIds, a \in PersistArgs :
        GetNextInterval(item_id, a[1], a[2], FALSE, 0)

PairReport ==
    \E item_id \in PersistIds :
        /\ item_id \in DOMAIN item_states => TotalSessions < MaxPairSessions
        /\ \E r \in Results : RecordResult(item_id, r[1], r[2], r[3], r[4])

PairStatistics == \E item_id \in PersistIds : GetItemStatistics(item_id)

NextPair == PairSchedule \/ PairReport \/ PairStatistics

SpecPair == Init /\ [][NextPair]_vars

----------------------------------------------------------------------------
(* The speech biomarker model, src/cognitive_backend/src/speech_model.py, and  *)
(* the /speech/analyze handler.  Coefficients and predicted loads are held in *)
(* tenths; feature values are whole numbers.                                   *)

feature_names == <<"wpm", "pause_rate", "ttr", "jitter", "articulation_rate">>

FeatureValues == {0, 1}

\* the features argument: a dict holding any subset of the five features
FeatureDicts == UNION {[S -> FeatureValues] : S \in SUBSET {feature_names[i] : i \in DOMAIN feature_names}}

\* coefficient vectors <<bias, wpm, pause_rate, ttr, jitter, articulation_rate>>
\* a training run or a model file can give
CoefficientSets == { <<5, 10, 5, 5, 5, 5>>, <<7, 10, 5, 5, 5, 5>>, <<35, -10, -5, -5, -5, -5>> }

\* dict.get(key, default)
DictGet(d, key, default) == IF key \in DOMAIN d THEN d[key] ELSE default

\* Lines 61-68
feature_vector(features) ==
    <<1>> \o [i \in DOMAIN feature_names |-> DictGet(features, feature_names[i], 0)]

\* v @ c
Dot(v, c) ==
    LET RECURSIVE Sum(_)
        Sum(i) == IF i = 0 THEN 0 ELSE v[i] * c[i] + Sum(i - 1)
    IN Sum(Len(v))

\* Line 71
predicted_load(features, coeffs) == Dot(feature_vector(features), coeffs)

load_band_of_strict(load) ==
    IF load < 15 THEN "low" ELSE IF load < 25 THEN "moderate" ELSE "high"

\* Lines 74-79: the band of a predicted load (in tenths)
load_band_of(load) ==
    IF load <= 15 THEN "low" ELSE IF load <= 25 THEN "moderate" ELSE "high"

\* whoami_general/src/utils.py: the band of a score (in tenths)
band_from_score(x) ==
    IF x < 15 THEN "low" ELSE IF x < 30 THEN "moderate" ELSE "high"

\* the record of a call on the speech model
NoSpeechCall == [op |-> "init", request |-> <<>>, load |-> 0, ret |-> "", err |-> "none", status |-> 0]

predict_load_band_unfitted_as_zero(features, coeffs) ==
    LET c == IF coeffs = None THEN <<0, 0, 0, 0, 0, 0>> ELSE coeffs
    IN [err |-> "none", load |-> predicted_load(features, c), ret |-> load_band_of(predicted_load(features, c))]

predict_load_band_requiring_all(features, coeffs) ==
    IF coeffs = None \/ DOMAIN features # {feature_names[i] : i \in DOMAIN feature_names}
    THEN [err |-> "ValueError", load |-> 0, ret |-> ""]
    ELSE [err |-> "none", load |-> predicted_load(features, coeffs),
          ret |-> load_band_of(predicted_load(features, coeffs))]

\* predict_load_band(features) on a model with the given coefficients: the
\* exception raised, the predicted load and the band returned
predict_load_band(features, coeffs) ==
    IF coeffs = None
    THEN [err |-> "ValueError", load |-> 0, ret |-> ""]
    ELSE [err |-> "none", load |-> predicted_load(features, coeffs),
          ret |-> load_band_of(predicted_load(features, coeffs))]

\* train(df): the normal equation gives the coefficients
Train ==
    /\ \E c \in CoefficientSets : coefficients' = c
    /\ last' = [NoSpeechCall EXCEPT !.op = "train"]
    /\ UNCHANGED <<sched, saved, conc>>

\* load_model(filepath) of a file written by an earlier training run
LoadSpeechModel ==
    /\ \E c \in CoefficientSets : coefficients' = c
    /\ last' = [NoSpeechCall EXCEPT !.op = "speech_load_model"]
    /\ UNCHANGED <<sched, saved, conc>>

PredictLoadBand(features) ==
    LET r == predict_load_band(features, coefficients)
    IN /\ last' = [NoSpeechCall EXCEPT !.op = "predict_load_band", !.request = features,
                                       !.load = r.load, !.ret = r.ret, !.err = r.err]
       /\ UNCHANGED <<sched, saved, conc, coefficients>>

\* POST /speech/analyze with the JSON body data
AnalyzeSpeech(data) ==
    LET features == data["features"]
        missing_features == {feature_names[i] : i \in DOMAIN feature_names} \ DOMAIN features
        r == predict_load_band(features, coefficients)
    IN /\ last' = IF "features" \notin DOMAIN data
                  THEN [NoSpeechCall EXCEPT !.op = "analyze_speech", !.status = 400]
                  ELSE IF missing_features # {}
                  THEN [NoSpeechCall EXCEPT !.op = "analyze_speech", !.request = features, !.status = 400]
                  ELSE IF r.err # "none"
                  THEN [NoSpeechCall EXCEPT !.op = "analyze_speech", !.request = features, !.status = 500,
                                            !.err = r.err]
                  ELSE [NoSpeechCall EXCEPT !.op = "analyze_speech", !.request = features, !.status = 200,
                                            !.load = r.load, !.ret = r.ret]
       /\ UNCHANGED <<sched, saved, conc, coefficients>>

Predict == \E features \in FeatureDicts : PredictLoadBand(features)

\* a body with features, or one without the key
Analyze ==
    \/ \E features \in FeatureDicts : AnalyzeSpeech([features |-> features])
    \/ AnalyzeSpeech([other |-> 0])

NextSpeech == Train \/ LoadSpeechModel \/ Predict \/ Analyze

SpecSpeech == Init /\ [][NextSpeech]_vars

----------------------------------------------------------------------------
(* The claims *)

IsSchedule == last.op = "get_next_interval"

IsRecord == last.op = "record_result" /\ last.known

StateOfLast == item_states[last.item_id]

LastSession == item_sessions[last.item_id][Len(item_sessions[last.item_id])]

\* C1 (as claimed): a get_next_interval call with load_band "high" never returns
\* 240 seconds, for a new or a known item, exploring or exploiting.
C1_HighLoadNeverLongest ==
    (IsSchedule /\ last.load_band = "high") => (last.action # n_actions - 1 /\ last.ret # 240)

\* C2 (as claimed): a record_result that follows a get_next_interval for the same
\* item credits the action that call chose.
C2_CreditsChosenAction ==
    [][(IsSchedule /\ last'.op = "record_result" /\ last'.known /\ last'.item_id = last.item_id)
          => last'.action = last.action]_vars

\* C3 (as claimed): for an item of difficulty 1 with streak >= 2 and load band
\* low or moderate, get_next_interval never returns 30 seconds.
C3_EasyMasteredNeverShortest ==
    (IsSchedule /\ StateOfLast[1] = 1 /\ StateOfLast[2] >= 2 /\ StateOfLast[4] \in {1, 2})
        => last.ret # 30

\* C4: every get_next_interval for an item of stored difficulty 3 returns 30, 60
\* or 120, never 240, on the first call and after any record_result calls.
C4_HardNeverLongest ==
    (IsSchedule /\ StateOfLast[1] = 3) => (last.err = "none" /\ last.ret \in {30, 60, 120})

\* the draw explored with an action above 1 (exploiting picks 0 or 1 here) and
\* the item has recorded results
C4_Witness ==
    IsSchedule /\ StateOfLast[1] = 3 /\ last.ret = 120 /\ Len(item_sessions[last.item_id]) >= 2

\* C5: every get_next_interval with difficulty in 1..3 and any of the labels
\* completes without error and returns 30, 60, 120 or 240, for new and known items.
C5_AlwaysAnInterval ==
    IsSchedule => (last.err = "none" /\ last.ret \in {30, 60, 120, 240} /\ last.ret = actions[last.action])

C5_Witness ==
    IsSchedule /\ last.known /\ last.ret = 240 /\ StateOfLast[4] = 3 /\ Len(item_sessions[last.item_id]) >= 1

\* C7: record_result with correct=true stores min(previous streak + 1, MAX_STREAK),
\* with correct=false stores 0; the stored streak is always in 0..MAX_STREAK.
C7_StreakUpdate ==
    /\ \A k \in DOMAIN item_states : item_states[k][2] \in 0..max_streak
    /\ IsRecord /\ last.err = "none" =>
          StateOfLast[2] = IF LastSession.correct
                           THEN Min(LastSession.old_state[2] + 1, max_streak)
                           ELSE 0

\* a correct result recorded at the cap
C7_Witness ==
    IsRecord /\ LastSession.correct /\ LastSession.old_state[2] = max_streak /\ StateOfLast[2] = max_streak

\* C8: record_result for an item without a state raises nothing and changes
\* nothing: Q-table, item states and logs are as before, no entry is created.
C8_UnknownItemNoOp ==
    [][(last'.op = "record_result" /\ last'.item_id \notin DOMAIN item_states)
          => (UNCHANGED sched /\ last'.err = "none" /\ last'.item_id \notin DOMAIN item_states')]_vars

C8_Witness ==
    /\ last.op = "record_result" /\ ~last.known /\ last.item_id \notin DOMAIN item_states
    /\ item_states # <<>> /\ TotalSessions >= 1

Malformed(r) == r[2] < 0 \/ r[4] \notin ValidLabels

\* C9 (as claimed): a call with a label outside {low, moderate, high} or with a
\* negative latency raises a validation error and changes nothing.
C9_MalformedRejected ==
    [][/\ (last'.op = "get_next_interval" /\ last'.load_band \notin ValidLabels)
             => (last'.err = "ValidationError" /\ UNCHANGED sched)
       /\ \A item_id \in ItemIds, r \in Results :
             (Malformed(r) /\ RecordResult(item_id, r[1], r[2], r[3], r[4]))
                 => (last'.err = "ValidationError" /\ UNCHANGED sched)]_vars

\* C9 (amended): neither call validates.  An unknown label is taken as "moderate"
\* (index 2) and a negative latency falls in latency bin 0; the call raises
\* nothing and takes effect: get_next_interval returns an interval and gives a new
\* item its state, record_result logs the result and stores the new state.
C9_MalformedAccepted ==
    /\ (IsSchedule /\ last.load_band \notin ValidLabels) =>
          /\ last.err = "none" /\ last.ret \in {30, 60, 120, 240}
          /\ ~last.known => (StateOfLast[2] = 0 /\ StateOfLast[3] = 1 /\ StateOfLast[4] = 2)
    /\ (IsRecord /\ last.load_band \notin ValidLabels) =>
          /\ last.err = "none" /\ Len(item_sessions[last.item_id]) >= 1
          /\ LastSession.new_state = StateOfLast /\ StateOfLast[4] = 2
          /\ LastSession.latency_sec < 0 => StateOfLast[3] = 0

\* a malformed result was recorded for a known item
C9_Witness ==
    /\ IsRecord /\ last.err = "none" /\ last.load_band = "bogus" /\ LastSession.latency_sec < 0
    /\ LastSession.old_state[3] # 0 /\ LastSession.old_state[4] # 2
    /\ StateOfLast[3] = 0 /\ StateOfLast[4] = 2

\* C6 (as claimed): two concurrent record_result calls for one item end as some
\* one-after-the-other run of the two ends: both records are in the log and the
\* stored streak, latency bin and load band are those of that run.
C6_RecordResultAtomic ==
    AllDone => \E o \in {<<1, 2>>, <<2, 1>>} :
                  /\ item_states = serial(o[1], o[2]).item_states
                  /\ \A k \in DOMAIN item_sessions :
                        Len(item_sessions[k]) = Len(serial(o[1], o[2]).item_sessions[k])

\* C10 (as claimed): load_model of a file just written by save_model succeeds and
\* restores the same Q-table and item-state map, so that every item seen before
\* gets the same interval under pure exploitation.
C10_SaveLoadRoundTrip ==
    [][(last'.op = "load_model" /\ saved.exists /\ saved = model_data_of(Fields))
          => /\ last'.err = "none"
             /\ q_table' = q_table
             /\ item_states' = item_states
             /\ \A k \in DOMAIN item_states :
                   exploit_interval([q_table |-> q_table', item_states |-> item_states'], k)
                       = exploit_interval(Fields, k)]_vars

----------------------------------------------------------------------------
(* The two ridge fits: SpeechBiomarkerModel.train (speech_model.py) and        *)
(* SpeechLoadModel.fit (whoami_general/src/model_speech_numpy.py).  Each       *)
(* inverts a regularized normal matrix; the coefficients are the solution of  *)
(* the linear system  matrix * beta = rhs,  which is what is kept here, with   *)
(* both sides multiplied by the denominator of lambda.                         *)

\* lambda_reg and lam, both 0.01 by default, as <<numerator, denominator>>
lambda_reg == <<1, 100>>

lam == <<1, 100>>

\* number of rows of a training frame
FrameSizes == {1, 2}

\* a row of the frame: the five features and the target
FrameRows == [features : [1..5 -> {0, 1}], target : {1, 3}]

\* np.column_stack([np.ones(n), X])
with_bias(X) == [r \in DOMAIN X |-> <<1>> \o X[r]]

\* X.T @ X
XtX_of(X) ==
    [i \in 1..6 |-> [j \in 1..6 |-> SeqSum([r \in DOMAIN X |-> X[r][i] * X[r][j]])]]

\* X.T @ y
Xty_of(X, y) == [i \in 1..6 |-> SeqSum([r \in DOMAIN X |-> X[r][i] * y[r]])]

\* np.eye(n)
eye(n) == [i \in 1..n |-> [j \in 1..n |-> IF i = j THEN 1 ELSE 0]]

\* I = np.eye(n); I[0,0] = 0
eye_bias_zeroed(n) == [eye(n) EXCEPT ![1][1] = 0]

\* A + l * R, times the denominator of l
regularized(A, l, R) == [i \in 1..6 |-> [j \in 1..6 |-> l[2] * A[i][j] + l[1] * R[i][j]]]

\* speech_model.py lines 35-41: the system train solves
train_system(frame) ==
    LET X == with_bias([r \in DOMAIN frame |-> frame[r].features])
        y == [r \in DOMAIN frame |-> frame[r].target]
        XtX == XtX_of(X)
    IN [XtX |-> XtX,
        matrix |-> regularized(XtX, lambda_reg, eye(6)),
        rhs |-> [i \in 1..6 |-> lambda_reg[2] * Xty_of(X, y)[i]]]

\* model_speech_numpy.py lines 15-20: the system fit solves
fit_system(frame) ==
    LET X_ == with_bias([r \in DOMAIN frame |-> frame[r].features])
        y == [r \in DOMAIN frame |-> frame[r].target]
        XtX == XtX_of(X_)
    IN [XtX |-> XtX,
        matrix |-> regularized(XtX, lam, eye_bias_zeroed(6)),
        rhs |-> [i \in 1..6 |-> lam[2] * Xty_of(X_, y)[i]]]

\* a training frame has been read
InitRidge ==
    /\ q_table = ZeroTable
    /\ item_states = <<>>
    /\ item_sessions = <<>>
    /\ saved = NoFile
    /\ pcs = [h \in Handlers |-> "idle"]
    /\ reqs = <<>>
    /\ locals = <<>>
    /\ pre = <<>>
    /\ coefficients = None
    /\ \E n \in FrameSizes : \E frame \in [1..n -> FrameRows] : last = [op |-> "frame", frame |-> frame]

\* SpeechBiomarkerModel.train(df)
RidgeTrain ==
    /\ last.op = "frame"
    /\ last' = [op |-> "train", frame |-> last.frame, system |-> train_system(last.frame)]
    /\ coefficients' = [solution_of |-> train_system(last.frame)]
    /\ UNCHANGED <<sched, saved, conc>>

\* SpeechLoadModel.fit(df)
RidgeFit ==
    /\ last.op = "frame"
    /\ last' = [op |-> "fit", frame |-> last.frame, system |-> fit_system(last.frame)]
    /\ coefficients' = [solution_of |-> fit_system(last.frame)]
    /\ UNCHANGED <<sched, saved, conc>>

NextRidge == RidgeTrain \/ RidgeFit

SpecRidge == InitRidge /\ [][NextRidge]_vars

----------------------------------------------------------------------------
(* Claims about the speech model *)

AllFeatures == {feature_names[i] : i \in DOMAIN feature_names}

IsPredict == last.op = "predict_load_band"

\* the dict with 0 put in for every feature it lacks
Completed(features) == [n \in AllFeatures |-> DictGet(features, n, 0)]

C16_BandThresholds ==
    (IsPredict /\ last.err = "none") =>
        /\ last.load <= 15 => last.ret = "low"
        /\ (last.load > 15 /\ last.load <= 25) => last.ret = "moderate"
        /\ last.load > 25 => last.ret = "high"

C16_Witness == IsPredict /\ last.err = "none" /\ last.load = 15 /\ last.ret = "low"

\* C17: predict_load_band on a model without coefficients raises and returns no
\* band; once train or load_model has set them it returns one of the three bands.
C17_UnfittedModelFails ==
    IsPredict => IF coefficients = None
                 THEN last.err # "none" /\ last.ret = ""
                 ELSE last.err = "none" /\ last.ret \in ValidLabels

C17_Witness == IsPredict /\ coefficients = None /\ last.err = "ValueError" /\ DOMAIN last.request = AllFeatures

\* C20 (as claimed): predict_load_band and utils.band_from_score give the same
\* band to every score in [0, 5].
C20_SameBands ==
    (IsPredict /\ last.err = "none" /\ last.load >= 0 /\ last.load <= 50)
        => last.ret = band_from_score(last.load)

----------------------------------------------------------------------------
(* Further claims about the scheduler *)

\* C12: the first get_next_interval for an unseen item gives it the state
\* (difficulty, 0, 1, index of the load band) and an empty log, picks the interval
\* from that state, and leaves every other item's state and log, and the
\* Q-table, as they were.
C12_FirstScheduleCreates ==
    [][(last'.op = "get_next_interval" /\ ~last'.known) =>
          LET item_id == last'.item_id
              state == <<last'.difficulty, 0, 1, get_load_band_index(last'.load_band)>>
          IN /\ item_id \notin DOMAIN item_states
             /\ DOMAIN item_states' = DOMAIN item_states \cup {item_id}
             /\ DOMAIN item_sessions' = DOMAIN item_sessions \cup {item_id}
             /\ item_states'[item_id] = state
             /\ item_sessions'[item_id] = <<>>
             /\ \A k \in DOMAIN item_states :
                   item_states'[k] = item_states[k] /\ item_sessions'[k] = item_sessions[k]
             /\ q_table' = q_table
             /\ last'.err = "none"
             /\ \E rnd \in Draws : last'.action = choose_action(q_table, state, rnd[1], rnd[2])
             /\ last'.ret = actions[last'.action]]_vars

\* a second item was created while the first already has a recorded result
C12_Witness ==
    /\ IsSchedule /\ ~last.known /\ item_sessions[last.item_id] = <<>>
    /\ \E k \in DOMAIN item_states : k # last.item_id /\ Len(item_sessions[k]) >= 1

\* C15: no get_next_interval or record_result call changes the stored difficulty
\* of an item that has a state, whatever difficulty it is passed; the stored
\* difficulty is the one given to the call that created the item.
C15_DifficultyFixed ==
    [][/\ \A k \in DOMAIN item_states :
             k \in DOMAIN item_states' /\ item_states'[k][1] = item_states[k][1]
       /\ (last'.op = "get_next_interval" /\ ~last'.known) =>
             item_states'[last'.item_id][1] = last'.difficulty]_vars

\* an item with recorded results was scheduled again with another difficulty
C15_Witness ==
    /\ IsSchedule /\ last.known /\ last.difficulty # StateOfLast[1]
    /\ Len(item_sessions[last.item_id]) >= 2

\* the value of one cell of a Q-table
Cell(q, s, a) == IF <<s, a>> \in DOMAIN q THEN q[<<s, a>>] ELSE 0

\* C18: a record_result for a known item writes exactly one cell, (s, a) for the
\* item's state s before the call and the credited action a, with
\* Q(s,a) + alpha * (r + gamma * max_a' Q(s',a') - Q(s,a)), alpha = 0.1, gamma = 0.9,
\* the maximum taken over the table before the write; no other cell changes.
C18_OneUpdatePerResult ==
    [][(last'.op = "record_result" /\ last'.known /\ last'.err = "none") =>
          LET item_id == last'.item_id
              s == IndexNorm(StateIndexOf(item_states[item_id]))
              s2 == IndexNorm(StateIndexOf(item_states'[item_id]))
              a == last'.action
              r == item_sessions'[item_id][Len(item_sessions'[item_id])].reward
              cur == Cell(q_table, s, a)
              mx == CHOOSE m \in {Cell(q_table, s2, b) : b \in 0..3} :
                        \A b \in 0..3 : Cell(q_table, s2, b) <= m
          IN /\ Len(item_sessions'[item_id]) = Len(item_sessions[item_id]) + 1
             /\ Cell(q_table', s, a) = cur + (10 * r * (QScale \div 10) + 9 * mx - 10 * cur) \div 100
             /\ \A c \in (DOMAIN q_table \cup DOMAIN q_table') \ {<<s, a>>} :
                   Cell(q_table', c[1], c[2]) = Cell(q_table, c[1], c[2])]_vars

\* a result recorded with s' = s (the streak at its cap) that raised the cell,
\* so that the row's maximum after the write differs from the one read
C18_Witness ==
    /\ IsRecord /\ LastSession.old_state = LastSession.new_state /\ LastSession.reward > 0
    /\ Cell(q_table, IndexNorm(StateIndexOf(StateOfLast)), credited_action) > 0

LastSessionOf(k) == item_sessions[k][Len(item_sessions[k])]

IsStatistics == last.op = "get_item_statistics"

\* C13: get_item_statistics never raises; it returns the empty result exactly
\* when the item has no recorded session (no log, or an empty one), and otherwise
\* a record of all its sessions, also when none of them was correct.
C13_StatisticsNotFound ==
    IsStatistics =>
        /\ last.err = "none"
        /\ DOMAIN last.stats = {} <=>
              (last.item_id \notin DOMAIN item_sessions \/ Len(item_sessions[last.item_id]) = 0)
        /\ DOMAIN last.stats # {} =>
              /\ last.stats.total_sessions = Len(item_sessions[last.item_id])
              /\ last.stats.accuracy[2] = last.stats.total_sessions
              /\ last.stats.accuracy[1] =
                    Cardinality({i \in DOMAIN item_sessions[last.item_id] : item_sessions[last.item_id][i].correct})
              /\ last.stats.current_streak = StateOfLast[2]

\* statistics of an item whose two or more recorded answers were all incorrect
C13_Witness ==
    /\ IsStatistics /\ DOMAIN last.stats # {}
    /\ last.stats.total_sessions >= 2 /\ last.stats.accuracy[1] = 0

Clamp(x, lo, hi) == IF x < lo THEN lo ELSE IF x > hi THEN hi ELSE x

\* C19 (as claimed): for every integer value of each component of a raw state,
\* get_state_index gives indices inside 0..2, 0..MAX_STREAK, 0..2, 0..2, and the
\* array access addresses the cell of the clamped state, without error.
C19_IndexInBounds ==
    last.op = "get_state_index" =>
        /\ last.idx[1] \in 0..2 /\ last.idx[2] \in 0..max_streak
        /\ last.idx[3] \in 0..max_latency_bin /\ last.idx[4] \in 0..max_load_bin
        /\ last.err = "none"
        /\ last.cell = <<Clamp(last.state[1] - 1, 0, 2), Clamp(last.state[2], 0, max_streak),
                         Clamp(last.state[3], 0, max_latency_bin), Clamp(last.state[4] - 1, 0, max_load_bin)>>

\* C22: calculate_reward gives, for a correct answer, 1.0 + the speed bonus (0.5
\* up to 2 s, 0.3 up to 5 s, 0.1 up to 10 s, else 0) + 0.2 for difficulty 3 + 0.2
\* for load band "high"; for an incorrect one -0.5, or -0.8 for difficulty 1; the
\* value is a function of the arguments and lies in [-0.8, 1.9].  In tenths.
C22_RewardTable ==
    last.op = "calculate_reward" =>
        /\ last.correct =>
              last.reward = 10
                  + (CASE last.latency_sec <= 2 -> 5
                       [] last.latency_sec > 2 /\ last.latency_sec <= 5 -> 3
                       [] last.latency_sec > 5 /\ last.latency_sec <= 10 -> 1
                       [] OTHER -> 0)
                  + (IF last.difficulty = 3 THEN 2 ELSE 0)
                  + (IF last.load_band = "high" THEN 2 ELSE 0)
        /\ ~last.correct => last.reward = IF last.difficulty = 1 THEN -8 ELSE -5
        /\ -8 <= last.reward /\ last.reward <= 19

\* the upper bound is attained at the boundary latency of 2 s
C22_Witness ==
    /\ last.op = "calculate_reward" /\ last.reward = 19
    /\ last.correct /\ last.latency_sec = 2 /\ last.difficulty = 3 /\ last.load_band = "high"

\* C25: record_result stores latency bin 0 for latency_sec <= 2, 1 for
\* 2 < latency_sec <= 5 and 2 above (7 s gives 2); every stored bin is 0, 1 or 2.
C25_LatencyBin ==
    /\ \A k \in DOMAIN item_states : item_states[k][3] \in {0, 1, 2}
    /\ (IsRecord /\ last.err = "none") =>
          /\ LastSession.latency_sec <= 2 => StateOfLast[3] = 0
          /\ (LastSession.latency_sec > 2 /\ LastSession.latency_sec <= 5) => StateOfLast[3] = 1
          /\ LastSession.latency_sec > 5 => StateOfLast[3] = 2

\* a result at exactly 5 s after one at exactly 2 s
C25_Witness ==
    /\ IsRecord /\ Len(item_sessions[last.item_id]) = 2
    /\ item_sessions[last.item_id][1].latency_sec = 2 /\ item_sessions[last.item_id][1].new_state[3] = 0
    /\ LastSession.latency_sec = 5 /\ StateOfLast[3] = 1

\* C30: a record_result step is the same step for every difficulty argument:
\* reward, Q-table and item state come from the stored difficulty.  The load_band
\* argument enters the reward (+0.2 for "high" on a correct answer) and the new
\* state (its index is stored).
C30_DifficultyArgumentIgnored ==
    [][(last'.op = "record_result" /\ last'.known /\ last'.err = "none") =>
          LET item_id == last'.item_id
              rec == item_sessions'[item_id][Len(item_sessions'[item_id])]
          IN /\ \A difficulty \in Difficulties :
                   RecordResult(item_id, rec.correct, rec.latency_sec, difficulty, last'.load_band)
             /\ rec.reward = calculate_reward(rec.correct, rec.latency_sec, item_states[item_id][1],
                                              last'.load_band)
             /\ item_states'[item_id][1] = item_states[item_id][1]
             /\ item_states'[item_id][4] = get_load_band_index(last'.load_band)
             /\ rec.correct =>
                   rec.reward = calculate_reward(TRUE, rec.latency_sec, item_states[item_id][1], "low")
                                   + (IF last'.load_band = "high" THEN 2 ELSE 0)]_vars

\* a correct answer under high load for an item of stored difficulty 1 and stored
\* load band low: the reward has the load bonus and not the difficulty bonus
C30_Witness ==
    /\ IsRecord /\ LastSession.correct /\ last.load_band = "high"
    /\ LastSession.old_state[1] = 1 /\ LastSession.old_state[4] = 1 /\ StateOfLast[4] = 3
    /\ LastSession.latency_sec = 1 /\ LastSession.reward = 17

\* C23: get_next_interval never writes the Q-table and, for an item that has a
\* state, leaves every stored state and every log as it was; a stored state
\* changes only in a record_result (or load_model) step.
C23_ScheduleWritesNothing ==
    [][/\ last'.op = "get_next_interval" =>
             /\ q_table' = q_table
             /\ \A k \in DOMAIN item_states :
                   /\ k \in DOMAIN item_states' /\ item_states'[k] = item_states[k]
                   /\ k \in DOMAIN item_sessions' /\ item_sessions'[k] = item_sessions[k]
             /\ last'.known => (item_states' = item_states /\ item_sessions' = item_sessions)
       /\ (\E k \in DOMAIN item_states : k \notin DOMAIN item_states' \/ item_states'[k] # item_states[k])
             => last'.op \in {"record_result", "load_model"}]_vars

\* an item with a recorded result was scheduled under a load band other than the
\* stored one, next to another item
C23_Witness ==
    /\ IsSchedule /\ last.known /\ Len(item_sessions[last.item_id]) >= 1
    /\ get_load_band_index(last.load_band) # StateOfLast[4]
    /\ \E k \in DOMAIN item_states : k # last.item_id

C28_ArgumentsIgnoredForKnownItem ==
    [][(last'.op = "get_next_interval" /\ last'.known
           /\ GetNextInterval(last'.item_id, last'.difficulty, last'.load_band, FALSE, 0)) =>
          /\ last'.ret = next_interval(Fields, last'.item_id, last'.difficulty, last'.load_band, FALSE, 0)
          /\ \A difficulty \in Difficulties, load_band \in LoadLabels :
                next_interval(Fields, last'.item_id, difficulty, load_band, FALSE, 0) = last'.ret]_vars

\* the stored state's row makes exploitation pick 60 s, while the row of the
\* state the arguments describe would give 30 s
C28_Witness ==
    /\ IsSchedule /\ last.known /\ last.ret = 60
    /\ get_load_band_index(last.load_band) # StateOfLast[4]
    /\ actions[choose_action(q_table, [StateOfLast EXCEPT ![4] = get_load_band_index(last.load_band)],
                             FALSE, 0)] = 30

\* C29: in every log the prior state of the first record is the state the item
\* had until then (its creation state), the prior state of each later record is
\* the new state of the record before it, and the new state of the last record
\* is the stored state; get_item_statistics reports the streak of that state.
C29_LogChain ==
    [][/\ \A k \in DOMAIN item_sessions' :
             /\ Len(item_sessions'[k]) >= 1 =>
                   /\ item_sessions'[k][Len(item_sessions'[k])].new_state = item_states'[k]
                   /\ item_sessions'[k][1].old_state[2] = 0 /\ item_sessions'[k][1].old_state[3] = 1
             /\ \A i \in 2..Len(item_sessions'[k]) :
                   item_sessions'[k][i].old_state = item_sessions'[k][i - 1].new_state
       /\ \A k \in DOMAIN item_sessions :
             (item_sessions[k] = <<>> /\ item_sessions'[k] # <<>>) =>
                 item_sessions'[k][1].old_state = item_states[k]
       /\ \A k \in DOMAIN item_states' \ DOMAIN item_states :
             /\ last'.op = "get_next_interval" /\ last'.item_id = k
             /\ item_states'[k] = <<last'.difficulty, 0, 1, get_load_band_index(last'.load_band)>>
       /\ (last'.op = "get_item_statistics" /\ DOMAIN last'.stats # {}) =>
             last'.stats.current_streak =
                 item_sessions'[last'.item_id][Len(item_sessions'[last'.item_id])].new_state[2]]_vars

\* statistics of an item with three records, the streak having risen and fallen
C29_Witness ==
    /\ IsStatistics /\ DOMAIN last.stats # {} /\ last.stats.total_sessions = 3
    /\ item_sessions[last.item_id][2].new_state[2] = 2
    /\ last.stats.current_streak = 0

\* the actions holding the maximum of the row of state s in the table q
Best(q, s) == {a \in 0..3 : \A b \in 0..3 : Cell(q, s, b) <= Cell(q, s, a)}

\* C26: when get_next_interval exploits, the action picked before the safety
\* constraints is the lowest-indexed one among those holding the maximum of the
\* row of the item's current state; for an all-zero row that is action 0.
C26_ExploitPicksLowestBest ==
    [][(last'.op = "get_next_interval"
           /\ GetNextInterval(last'.item_id, last'.difficulty, last'.load_band, FALSE, 0)) =>
          LET state == item_states'[last'.item_id]
              s == IndexNorm(StateIndexOf(state))
          IN /\ \E a \in Best(q_table, s) :
                   /\ \A b \in Best(q_table, s) : a <= b
                   /\ last'.action = safety_constraints(state, a)
             /\ (\A b \in 0..3 : Cell(q_table, s, b) = 0) => last'.action = safety_constraints(state, 0)]_vars

\* the action-0 cell of the row is negative and the other three tie at 0:
\* exploitation picked action 1
C26_Witness ==
    /\ IsSchedule /\ last.known /\ last.action = 1
    /\ Cell(q_table, IndexNorm(StateIndexOf(StateOfLast)), 0) < 0
    /\ Best(q_table, IndexNorm(StateIndexOf(StateOfLast))) = {1, 2, 3}

\* C27: from the all-zero table, every cell of actions 1, 2 and 3 stays 0 (only
\* action-0 cells are ever written), and pure exploitation returns 30 or 60
\* seconds for every item.
C27_OnlyFirstActionLearned ==
    /\ \A c \in DOMAIN q_table : c[2] = 0
    /\ \A s \in {c[1] : c \in DOMAIN q_table} : \A a \in 1..3 : Cell(q_table, s, a) = 0
    /\ \A k \in DOMAIN item_states :
          \A difficulty \in Difficulties, load_band \in LoadLabels :
              next_interval(Fields, k, difficulty, load_band, FALSE, 0) \in {30, 60}

\* cells of both signs have been written, and the item now gets 60 s
C27_Witness ==
    /\ \E c \in DOMAIN q_table : q_table[c] > 0
    /\ \E c \in DOMAIN q_table : q_table[c] < 0
    /\ \E k \in DOMAIN item_states : next_interval(Fields, k, 1, "low", FALSE, 0) = 60

\* C21 (as claimed): both ridge fits add lambda to every diagonal entry of X^T X
\* except the bias one, and to no other entry: the intercept is not regularized.
C21_InterceptUnregularized ==
    last.op \in {"train", "fit"} =>
        \A i \in 1..6, j \in 1..6 :
            last.system.matrix[i][j] - 100 * last.system.XtX[i][j] = IF i = j /\ i # 1 THEN 1 ELSE 0

=============================================================================
